---- MODULE Spec2Model ----
(***************************************************************************)
(* Model of invenio-users-resources: the users service's moderation        *)
(* transitions (block, restore, approve, deactivate, activate) with the    *)
(* moderation mutex and the unit of work, the record lookups of the users  *)
(* and groups services, and the permission policies that guard them.       *)
(***************************************************************************)
EXTENDS Integers, FiniteSets, Sequences, TLC

VARIABLES
    users,      \* user id -> [active, blocked, verified, confirmed]: the accounts table
    prefs,      \* user id -> preferences (visibility)
    members,    \* user id -> set of role names the user belongs to
    groups,     \* role name -> [is_managed, description] of the existing roles
    config,     \* the application configuration: groups_enabled, protected (group names)
    mutex,      \* user id -> set of requests that acquired the moderation lock and still hold it
    tasks,      \* bag of callbacks sent to the task queue: <<user id, action>> -> pending count
    calls,      \* request slot -> the moderation request running in it
    last,       \* the last request served outside the moderation transitions
    probe       \* a generator call on its own: its arguments and what it returned

vars == <<users, prefs, members, groups, config, mutex, tasks, calls, last, probe>>

----------------------------------------------------------------------------
(* Bounds of the model *)

\* number of moderation requests that may be in flight together
NumCalls == 2

\* user ids 1..MaxUserId have an account; MissingUserId has none
MaxUserId == 2

UserIds == 1..MaxUserId

MissingUserId == MaxUserId + 1

Calls == 1..NumCalls

----------------------------------------------------------------------------
(* Identity values and needs *)

IdInt(n) == [t |-> "int", v |-> n]

IdStr(s) == [t |-> "str", v |-> s]

IdNone == [t |-> "none", v |-> 0]

UserNeed(idv) == [method |-> "id", value |-> idv]

RoleNeed(r) == [method |-> "role", value |-> r]

ActionNeed(a) == [method |-> "action", value |-> a]

SystemRoleNeed(r) == [method |-> "system_role", value |-> r]

any_user == SystemRoleNeed("any_user")

authenticated_user == SystemRoleNeed("authenticated_user")

system_process == SystemRoleNeed("system_process")

superuser_access == ActionNeed("superuser-access")

USER_MANAGEMENT_ACTION_NAME == "administration-moderation"

user_management_action == ActionNeed(USER_MANAGEMENT_ACTION_NAME)

\* rows of the access tables: the action each role has been granted
ActionRoles == { <<"superuser-access", "admin">>,
                 <<USER_MANAGEMENT_ACTION_NAME, "moderators">> }

\* role names a request may name; MissingGroup never exists
GroupNames == {"admin", "moderators", "it-dep"}

MissingGroup == "no-such-group"

system_identity == [id |-> IdStr("system"), provides |-> {system_process}]

anon_identity == [id |-> IdNone, provides |-> {any_user}]

\* the identity loaded for a logged-in user: its own need and its roles
UserIdentity(u, roles) ==
    [id |-> IdInt(u),
     provides |-> {any_user, authenticated_user, UserNeed(IdInt(u))}
                    \cup {RoleNeed(r) : r \in roles}]

----------------------------------------------------------------------------
(* Permission evaluation: invenio_access.Permission over a policy's needs *)

\* an action need stands for itself and for every role that was granted the action
ExpandNeed(n) ==
    IF n.method = "action"
    THEN {n} \cup {RoleNeed(ar[2]) : ar \in {x \in ActionRoles : x[1] = n.value}}
    ELSE {n}

\* Permission(*needs).needs: superuser-access is always among the granting needs
PermissionNeeds(explicit) == UNION {ExpandNeed(n) : n \in explicit \cup {superuser_access}}

PermissionAllows(explicit, excludes, identity) ==
    /\ PermissionNeeds(explicit) \cap identity.provides # {}
    /\ excludes \cap identity.provides = {}

----------------------------------------------------------------------------
(* Records handed to the generators *)

NoRecord == [kind |-> "none"]

NoIdentity == [id |-> IdNone, provides |-> {}]

UserRecord(u) == [kind |-> "user", id |-> IdInt(u)]

GroupRecord(g) ==
    [kind |-> "role", id |-> IdStr(g), name |-> g, is_managed |-> groups[g].is_managed]

\* UserAggregate.get_record(id_): None when there is no such account
GetUser(id_) == IF id_ \in DOMAIN users THEN UserRecord(id_) ELSE NoRecord

\* GroupAggregate.get_record_by_name(name): None when there is no such role
GetGroup(name) == IF name \in DOMAIN groups THEN GroupRecord(name) ELSE NoRecord

\* invenio_access.utils.get_identity(user): the identity an account would log in with
get_identity(u) == UserIdentity(u, members[u])

----------------------------------------------------------------------------
(* Generators: needs and excludes *)

Ctx(record, identity, actor_id) ==
    [record |-> record, identity |-> identity, actor_id |-> actor_id]

AnyUser_needs == {any_user}

AuthenticatedUser_needs == {authenticated_user}

SystemProcess_needs == {system_process}

Self_needs(ctx) == IF ctx.record # NoRecord THEN {UserNeed(ctx.record.id)} ELSE {}

\* PreventSelf.excludes with "if not record or not actor_id": 0 counts as no actor
PreventSelf_excludes_Truthy(ctx) ==
    IF ctx.record = NoRecord \/ ctx.actor_id \in {IdNone, IdInt(0)} THEN {}
    ELSE IF ctx.actor_id = ctx.record.id THEN {UserNeed(ctx.record.id)}
    ELSE {}

PreventSelf_excludes(ctx) ==
    IF ctx.record = NoRecord \/ ctx.actor_id = IdNone THEN {}
    ELSE IF ctx.actor_id = ctx.record.id THEN {UserNeed(ctx.record.id)}
    ELSE {}

DenyAll_excludes == {any_user}

GroupsEnabled_excludes(need_groups_enabled_types) ==
    IF \E m \in {"group"} : m \in need_groups_enabled_types /\ ~config.groups_enabled
    THEN {any_user} ELSE {}

ProtectedGroup_is_protected(record) ==
    IF config.protected = {} \/ record = NoRecord THEN FALSE
    ELSE config.protected \cap {record.id.v, record.name} # {}

\* ProtectedGroupIdentifiers.excludes that protects nothing
ProtectedGroupIdentifiers_excludes_Nothing(ctx) == {}

ProtectedGroupIdentifiers_excludes(ctx) ==
    IF ~ProtectedGroup_is_protected(ctx.record) THEN {}
    ELSE IF ctx.identity # NoIdentity /\ system_process \in ctx.identity.provides THEN {}
    ELSE {any_user}

\* AdministrationAction.needs, for UserManager and GroupManager
AdministrationAction_needs == {user_management_action}

\* AdminAction(superuser_access).needs
SuperAdmin_needs == {superuser_access}

\* IfPublic._condition with "public" as the default of a missing field
IfPublic_condition_DefaultPublic(field_name, ctx) ==
    IF ctx.record = NoRecord THEN FALSE
    ELSE LET p == prefs[ctx.record.id.v]
             visibility == IF field_name \in DOMAIN p THEN p[field_name] ELSE "public"
         IN  visibility = "public"

IfPublic_condition(field_name, ctx) ==
    IF ctx.record = NoRecord THEN FALSE
    ELSE LET p == prefs[ctx.record.id.v]
             visibility == IF field_name \in DOMAIN p THEN p[field_name] ELSE "restricted"
         IN  visibility = "public"

\* IfGroupNotManaged._condition that takes every group for a managed one
IfGroupNotManaged_condition_Never(ctx) == FALSE

IfGroupNotManaged_condition(ctx) ==
    IF ctx.record = NoRecord THEN FALSE ELSE ~ctx.record.is_managed

IfSuperAdmin_is_user_superadmin(identity) ==
    IF identity = NoIdentity THEN FALSE
    ELSE PermissionAllows({superuser_access}, {}, identity)

IfSuperAdmin_is_role_superadmin(record) == <<"superuser-access", record.id.v>> \in ActionRoles

IfSuperAdmin_is_record_superadmin(record) ==
    IF record.kind = "role" THEN IfSuperAdmin_is_role_superadmin(record)
    ELSE IfSuperAdmin_is_user_superadmin(get_identity(record.id.v))

IfSuperAdmin_condition(ctx) ==
    IF ctx.identity # NoIdentity /\ IfSuperAdmin_is_user_superadmin(ctx.identity) THEN TRUE
    ELSE ctx.record # NoRecord /\ IfSuperAdmin_is_record_superadmin(ctx.record)

----------------------------------------------------------------------------
(* Permission policies: the needs and excludes of each action's generators *)

\* UsersPermissionPolicy with can_manage_groups = [GroupManager, SystemProcess()],
\* without the IfSuperAdmin around it
UsersPolicy_needs_GroupsUnguarded(action, ctx) ==
    CASE action = "read" ->
            AdministrationAction_needs
            \cup (IF IfPublic_condition("visibility", ctx) THEN AnyUser_needs ELSE Self_needs(ctx))
            \cup SystemProcess_needs
      [] action = "manage" -> AdministrationAction_needs \cup SystemProcess_needs
      [] action = "impersonate" ->
            (IF IfSuperAdmin_condition(ctx) THEN SuperAdmin_needs ELSE AdministrationAction_needs)
            \cup SystemProcess_needs
      [] action = "manage_groups" -> AdministrationAction_needs \cup SystemProcess_needs
      [] OTHER -> SystemProcess_needs

UsersPolicy_needs(action, ctx) ==
    CASE action = "read" ->
            AdministrationAction_needs
            \cup (IF IfPublic_condition("visibility", ctx) THEN AnyUser_needs ELSE Self_needs(ctx))
            \cup SystemProcess_needs
      [] action = "manage" -> AdministrationAction_needs \cup SystemProcess_needs
      [] action = "impersonate" ->
            (IF IfSuperAdmin_condition(ctx) THEN SuperAdmin_needs ELSE AdministrationAction_needs)
            \cup SystemProcess_needs
      [] action = "manage_groups" ->
            (IF IfSuperAdmin_condition(ctx) THEN SuperAdmin_needs ELSE AdministrationAction_needs)
            \cup SystemProcess_needs
      [] OTHER -> SystemProcess_needs

\* can_impersonate without PreventSelf()
UsersPolicy_excludes_ManageOnly(action, ctx) ==
    CASE action = "manage" -> PreventSelf_excludes(ctx)
      [] OTHER -> {}

UsersPolicy_excludes(action, ctx) ==
    CASE action \in {"manage", "impersonate"} -> PreventSelf_excludes(ctx)
      [] OTHER -> {}

\* GroupsPermissionPolicy with can_read = _can_any + [IfGroupNotManaged(..)], without
\* the IfSuperAdmin around it
GroupsPolicy_needs_ReadUnguarded(action, ctx) ==
    CASE action = "read" ->
            SystemProcess_needs
            \cup (IF IfGroupNotManaged_condition(ctx) THEN AuthenticatedUser_needs
                  ELSE AdministrationAction_needs)
      [] action \in {"update", "delete"} ->
            SystemProcess_needs
            \cup (IF IfSuperAdmin_condition(ctx) THEN SuperAdmin_needs
                  ELSE IF IfGroupNotManaged_condition(ctx) THEN {}
                  ELSE AdministrationAction_needs)
      [] action = "search" -> SystemProcess_needs \cup AuthenticatedUser_needs
      [] action = "create" -> AdministrationAction_needs \cup SystemProcess_needs
      [] OTHER -> SystemProcess_needs

GroupsPolicy_needs(action, ctx) ==
    CASE action = "read" ->
            SystemProcess_needs
            \cup (IF IfSuperAdmin_condition(ctx) THEN SuperAdmin_needs
                  ELSE IF IfGroupNotManaged_condition(ctx) THEN AuthenticatedUser_needs
                  ELSE AdministrationAction_needs)
      [] action \in {"update", "delete"} ->
            SystemProcess_needs
            \cup (IF IfSuperAdmin_condition(ctx) THEN SuperAdmin_needs
                  ELSE IF IfGroupNotManaged_condition(ctx) THEN {}
                  ELSE AdministrationAction_needs)
      [] action = "search" -> SystemProcess_needs \cup AuthenticatedUser_needs
      [] action = "create" -> AdministrationAction_needs \cup SystemProcess_needs
      [] OTHER -> SystemProcess_needs

GroupsPolicy_excludes(action, ctx) ==
    CASE action = "read" -> GroupsEnabled_excludes({"group"})
      [] action \in {"update", "delete"} ->
            GroupsEnabled_excludes({"group"})
            \cup ProtectedGroupIdentifiers_excludes(ctx)
            \cup (IF ~IfSuperAdmin_condition(ctx) /\ IfGroupNotManaged_condition(ctx)
                  THEN DenyAll_excludes ELSE {})
      [] action = "create" -> ProtectedGroupIdentifiers_excludes(ctx)
      [] OTHER -> GroupsEnabled_excludes({"group"})

\* UsersService.check_permission: policy(action, identity=identity, **kwargs).allows(identity)
UsersAllows(identity, action, record, actor_id) ==
    LET ctx == Ctx(record, identity, actor_id)
    IN  PermissionAllows(UsersPolicy_needs(action, ctx), UsersPolicy_excludes(action, ctx), identity)

\* UsersService._check_permission: the acting identity's id is passed as actor_id
Users_check_permission(identity, action, record) ==
    UsersAllows(identity, action, record, identity.id)

GroupsAllows(identity, action, record) ==
    LET ctx == Ctx(record, identity, IdNone)
    IN  PermissionAllows(GroupsPolicy_needs(action, ctx), GroupsPolicy_excludes(action, ctx), identity)

\* the identities a request may come from, as the accounts stand
Identities == {system_identity, anon_identity} \cup {get_identity(u) : u \in UserIds}

----------------------------------------------------------------------------
(* Query filters: the search engine's query DSL *)

\* [] or None: a generator without a filter, a generator list without any
NoFilter == [q |-> "none"]

\* dsl.Q("match_all")
Q_match_all == [q |-> "match_all"]

\* dsl.Q("match", field=value)
Q_match(field, value) == [q |-> "match", field |-> field, value |-> value]

\* dsl.Q("term", field=value)
Q_term(field, value) == [q |-> "term", field |-> field, value |-> value]

\* dsl.Q("terms", field=values)
Q_terms(field, values) == [q |-> "terms", field |-> field, values |-> values]

\* a & b, with the operands as they were handed over
Q_and(a, b) == [q |-> "and", args |-> <<a, b>>]

\* a | b
Q_or(a, b) == [q |-> "or", args |-> <<a, b>>]

\* ~a
Q_not(a) == [q |-> "not", args |-> <<a>>]

\* a query of the DSL all of whose operands are queries of the DSL
RECURSIVE IsFilter(_)
IsFilter(f) ==
    CASE f.q \in {"match_all", "match", "term", "terms"} -> TRUE
      [] f.q \in {"and", "or", "not"} -> \A i \in DOMAIN f.args : IsFilter(f.args[i])
      [] OTHER -> FALSE

\* whether the search engine returns the document under the filter
RECURSIVE Matches(_, _)
Matches(f, doc) ==
    CASE f.q = "match_all" -> TRUE
      [] f.q \in {"match", "term"} -> f.field \in DOMAIN doc /\ doc[f.field] = f.value
      [] f.q = "terms" -> f.field \in DOMAIN doc /\ doc[f.field] \in f.values
      [] f.q = "and" -> \A i \in DOMAIN f.args : Matches(f.args[i], doc)
      [] f.q = "or" -> \E i \in DOMAIN f.args : Matches(f.args[i], doc)
      [] f.q = "not" -> ~Matches(f.args[1], doc)
      [] OTHER -> FALSE

\* reduce(operator.or_, queries)
RECURSIVE ReduceOr(_)
ReduceOr(queries) ==
    IF Len(queries) = 1 THEN queries[1]
    ELSE Q_or(ReduceOr(SubSeq(queries, 1, Len(queries) - 1)), queries[Len(queries)])

\* [q for q in queries if q]
Truthy(queries) == SelectSeq(queries, LAMBDA f : f.q # "none")

\* ConditionalGenerator._make_query over the filters of a generator list
make_query(queries) ==
    IF Truthy(queries) = <<>> THEN NoFilter ELSE ReduceOr(Truthy(queries))

----------------------------------------------------------------------------
(* Generator instances and the generator lists of the policies *)

AnyUser == [gen |-> "AnyUser"]

AuthenticatedUser == [gen |-> "AuthenticatedUser"]

SystemProcess == [gen |-> "SystemProcess"]

Self == [gen |-> "Self"]

PreventSelf == [gen |-> "PreventSelf"]

DenyAll == [gen |-> "DenyAll"]

GroupsEnabled(types) == [gen |-> "GroupsEnabled", need_groups_enabled_types |-> types]

ProtectedGroupIdentifiers == [gen |-> "ProtectedGroupIdentifiers"]

UserManager == [gen |-> "AdministrationUserAction", action |-> user_management_action]

GroupManager == [gen |-> "AdministrationGroupAction", action |-> user_management_action]

SuperAdmin == [gen |-> "AdminAction", action |-> superuser_access]

IfPublic(field_name, then_, else_) ==
    [gen |-> "IfPublic", field_name |-> field_name, then_ |-> then_, else_ |-> else_]

IfPublicUser(then_, else_) == IfPublic("visibility", then_, else_)

IfPublicEmail(then_, else_) == IfPublic("email_visibility", then_, else_)

IfGroupNotManaged(then_, else_) ==
    [gen |-> "IfGroupNotManaged", then_ |-> then_, else_ |-> else_]

IfSuperAdmin(then_, else_) == [gen |-> "IfSuperAdmin", then_ |-> then_, else_ |-> else_]

UsersPermissionPolicy(action) ==
    CASE action = "read" ->
            <<UserManager, IfPublicUser(<<AnyUser>>, <<Self>>), SystemProcess>>
      [] action = "search" -> <<AuthenticatedUser, SystemProcess>>
      [] action = "read_email" ->
            <<UserManager, IfPublicEmail(<<AnyUser>>, <<Self>>), SystemProcess>>
      [] action = "read_details" -> <<UserManager, Self, SystemProcess>>
      [] action \in {"read_all", "search_all", "read_system_details"} ->
            <<UserManager, SystemProcess>>
      [] action = "manage" -> <<UserManager, PreventSelf, SystemProcess>>
      [] action = "impersonate" ->
            <<IfSuperAdmin(<<SuperAdmin>>, <<UserManager>>), PreventSelf, SystemProcess>>
      [] action = "manage_groups" ->
            <<IfSuperAdmin(<<SuperAdmin>>, <<GroupManager>>), SystemProcess>>
      [] OTHER -> <<SystemProcess>>

GroupsPolicy_can_any == <<GroupsEnabled({"group"}), SystemProcess>>

GroupsPermissionPolicy(action) ==
    CASE action = "read" ->
            GroupsPolicy_can_any
            \o <<IfSuperAdmin(<<SuperAdmin>>,
                              <<IfGroupNotManaged(<<AuthenticatedUser>>, <<GroupManager>>)>>)>>
      [] action = "search" -> GroupsPolicy_can_any \o <<AuthenticatedUser>>
      [] action = "create" -> <<ProtectedGroupIdentifiers, GroupManager, SystemProcess>>
      [] action = "update" ->
            GroupsPolicy_can_any
            \o <<ProtectedGroupIdentifiers,
                 IfSuperAdmin(<<SuperAdmin>>,
                              <<IfGroupNotManaged(<<DenyAll>>, <<GroupManager>>)>>)>>
      [] action = "delete" ->
            GroupsPolicy_can_any
            \o <<ProtectedGroupIdentifiers,
                 IfSuperAdmin(<<SuperAdmin>>,
                              <<IfGroupNotManaged(<<DenyAll>>, <<GroupManager>>)>>),
                 SystemProcess>>
      [] OTHER -> <<SystemProcess>>

DomainPermissionPolicy(action) == <<UserManager, SystemProcess>>

UsersActions ==
    {"create", "read", "search", "update", "delete", "read_email", "read_details",
     "read_all", "manage", "search_all", "read_system_details", "impersonate",
     "manage_groups"}

GroupsActions == {"read", "search", "create", "update", "delete"}

DomainActions == {"create", "read", "search", "update", "delete"}

----------------------------------------------------------------------------
(* Generators: needs and query filters of an instance *)

\* ConditionalGenerator._condition of an instance
Gen_condition(g, ctx) ==
    CASE g.gen = "IfPublic" -> IfPublic_condition(g.field_name, ctx)
      [] g.gen = "IfGroupNotManaged" -> IfGroupNotManaged_condition(ctx)
      [] g.gen = "IfSuperAdmin" -> IfSuperAdmin_condition(ctx)

\* Generator.needs of an instance; a conditional generator gives the needs of the
\* branch its condition picks
RECURSIVE Gen_needs(_, _)
Gen_needs(g, ctx) ==
    CASE g.gen = "AnyUser" -> AnyUser_needs
      [] g.gen = "AuthenticatedUser" -> AuthenticatedUser_needs
      [] g.gen = "SystemProcess" -> SystemProcess_needs
      [] g.gen = "Self" -> Self_needs(ctx)
      [] g.gen \in {"AdministrationUserAction", "AdministrationGroupAction", "AdminAction"} ->
            {g.action}
      [] g.gen \in {"IfPublic", "IfGroupNotManaged", "IfSuperAdmin"} ->
            LET branch == IF Gen_condition(g, ctx) THEN g.then_ ELSE g.else_
            IN  UNION {Gen_needs(branch[i], ctx) : i \in DOMAIN branch}
      [] OTHER -> {}

\* AdministrationUserAction._records_to_exclude: the users in a role that was granted
\* superuser-access
AdministrationUserAction_records_to_exclude ==
    {u \in DOMAIN members :
        \E ar \in ActionRoles : ar[1] = "superuser-access" /\ ar[2] \in members[u]}

\* AdministrationGroupAction._records_to_exclude: the roles granted superuser-access
AdministrationGroupAction_records_to_exclude ==
    {ar[2] : ar \in {x \in ActionRoles : x[1] = "superuser-access"}}

\* AdministrationAction.query_filter that hides no record
AdministrationAction_query_filter_NoExclude(action, exclude_ids, identity) ==
    IF identity = NoIdentity THEN NoFilter
    ELSE IF ~PermissionAllows({action}, {}, identity) THEN NoFilter
    ELSE Q_match_all

\* AdministrationAction.query_filter
AdministrationAction_query_filter(action, exclude_ids, identity) ==
    IF identity = NoIdentity THEN NoFilter
    ELSE IF ~PermissionAllows({action}, {}, identity) THEN NoFilter
    ELSE IF exclude_ids = {} THEN Q_match_all
    ELSE Q_and(Q_match_all, Q_not(Q_terms("id", exclude_ids)))

\* Self.query_filter: the first id need the identity provides
Self_query_filter(identity) ==
    LET ids == {n \in identity.provides : n.method = "id"}
    IN  IF identity = NoIdentity \/ ids = {} THEN NoFilter
        ELSE Q_term("id", (CHOOSE n \in ids : TRUE).value)

\* IfPublic.query_filter over the filters of its two branches
IfPublic_query_filter(field_name, then_query, else_query) ==
    LET q_public == Q_match(field_name, "public")
        q_restricted == Q_match(field_name, "restricted")
    IN  IF then_query.q # "none" /\ else_query.q # "none"
        THEN Q_or(Q_and(q_public, then_query), Q_and(q_restricted, else_query))
        ELSE IF then_query.q # "none" THEN Q_and(q_public, then_query)
        ELSE IF else_query.q # "none" THEN Q_or(q_public, Q_and(q_restricted, else_query))
        ELSE q_public

\* IfGroupNotManaged.query_filter that asks whether the identity satisfies the needs
\* of then_
IfGroupNotManaged_query_filter_ThenNeeds(then_query, else_query, then_needs, else_needs, identity) ==
    IF identity # NoIdentity /\ PermissionAllows(then_needs, {}, identity)
    THEN else_query
    ELSE Q_and(Q_match("is_managed", FALSE), then_query)

\* IfGroupNotManaged.query_filter over the filters of its two branches: self.needs is
\* called without a record, so that _condition is false and the needs are those of else_
IfGroupNotManaged_query_filter(then_query, else_query, then_needs, else_needs, identity) ==
    IF identity # NoIdentity /\ PermissionAllows(else_needs, {}, identity)
    THEN else_query
    ELSE Q_and(Q_match("is_managed", FALSE), then_query)

\* Generator.query_filter of an instance, for the searching identity
RECURSIVE Gen_query_filter(_, _)
Gen_query_filter(g, identity) ==
    LET ctx == Ctx(NoRecord, identity, IdNone)
        branch_query(branch) ==
            make_query([i \in DOMAIN branch |-> Gen_query_filter(branch[i], identity)])
        branch_needs(branch) == UNION {Gen_needs(branch[i], ctx) : i \in DOMAIN branch}
    IN  CASE g.gen \in {"AnyUser", "AuthenticatedUser"} -> Q_match_all
          [] g.gen = "SystemProcess" ->
                IF system_process \in identity.provides THEN Q_match_all ELSE NoFilter
          [] g.gen = "AdminAction" ->
                IF PermissionAllows({g.action}, {}, identity) THEN Q_match_all ELSE NoFilter
          [] g.gen = "Self" -> Self_query_filter(identity)
          [] g.gen = "AdministrationUserAction" ->
                AdministrationAction_query_filter(
                    g.action, AdministrationUserAction_records_to_exclude, identity)
          [] g.gen = "AdministrationGroupAction" ->
                AdministrationAction_query_filter(
                    g.action, AdministrationGroupAction_records_to_exclude, identity)
          [] g.gen = "IfPublic" ->
                IfPublic_query_filter(g.field_name, branch_query(g.then_),
                                      branch_query(g.else_))
          [] g.gen = "IfGroupNotManaged" ->
                IfGroupNotManaged_query_filter(
                    branch_query(g.then_), branch_query(g.else_),
                    branch_needs(g.then_), branch_needs(g.else_), identity)
          [] g.gen = "IfSuperAdmin" ->
                branch_query(IF IfSuperAdmin_is_user_superadmin(identity)
                             THEN g.then_ ELSE g.else_)
          [] OTHER -> NoFilter

\* BasePermissionPolicy.query_filters: the filters of the generators that have one
Policy_query_filters(generators, identity) ==
    Truthy([i \in DOMAIN generators |-> Gen_query_filter(generators[i], identity)])

----------------------------------------------------------------------------
(* The user aggregate's moderation state and its mutators *)

UserRow(active, blocked, verified, confirmed) ==
    [active |-> active, blocked |-> blocked, verified |-> verified,
     confirmed |-> confirmed, ver |-> 0]

\* the accounts at the start: user 1 is a fresh sign-up (active, not yet confirmed or
\* verified), every other account is a confirmed and verified member
InitUsers ==
    [u \in UserIds |->
        IF u = 1 THEN UserRow(TRUE, FALSE, FALSE, FALSE) ELSE UserRow(TRUE, FALSE, TRUE, TRUE)]

\* UserAggregate.block(): any -> blocked
User_block(row) == [row EXCEPT !.blocked = TRUE, !.active = FALSE]

\* UserAggregate.activate(): blocked or inactive -> active
User_activate(row) == [row EXCEPT !.active = TRUE, !.blocked = FALSE]

\* UserAggregate.verify(): unverified -> verified
User_verify(row) == [row EXCEPT !.verified = TRUE]

\* UserAggregate.deactivate(): active -> inactive
User_deactivate(row) == [row EXCEPT !.active = FALSE]

ModerationOps == {"block", "restore", "approve", "deactivate", "activate"}

\* the mutator each transition calls on the user
Mutate(op, row) ==
    CASE op = "block" -> User_block(row)
      [] op = "restore" -> User_activate(row)
      [] op = "approve" -> User_verify(row)
      [] op = "deactivate" -> User_deactivate(row)
      [] op = "activate" -> User_activate(row)

\* block no longer checks that the user is already blocked
PreconditionFails_NoBlockCheck(op, row) ==
    CASE op = "block" -> FALSE
      [] op = "restore" -> ~row.blocked
      [] op = "approve" -> row.verified
      [] op = "deactivate" -> ~row.active
      [] op = "activate" -> row.active /\ row.confirmed

\* activate rejects every active user, confirmed or not
PreconditionFails_ActiveOnly(op, row) ==
    CASE op = "block" -> row.blocked
      [] op = "restore" -> ~row.blocked
      [] op = "approve" -> row.verified
      [] op = "deactivate" -> ~row.active
      [] op = "activate" -> row.active

\* the precondition each transition checks; TRUE when the ValidationError is raised
PreconditionFails(op, row) ==
    CASE op = "block" -> row.blocked
      [] op = "restore" -> ~row.blocked
      [] op = "approve" -> row.verified
      [] op = "deactivate" -> ~row.active
      [] op = "activate" -> row.active /\ row.confirmed

\* approve goes without the mutex
TakesMutex_ApproveUnlocked(op) == op \in {"block", "restore"}

\* the transitions that take the moderation mutex
TakesMutex(op) == op \in {"block", "restore", "approve"}

\* every transition registers a callback task
RegisteredOps_TaskForAll(op) == <<"RecordCommitOp", "TaskOp">>

\* the operations each transition registers on its unit of work
RegisteredOps(op) ==
    IF op \in {"block", "restore", "approve"}
    THEN <<"RecordCommitOp", "TaskOp">>
    ELSE <<"RecordCommitOp">>

\* the number of TaskOp entries a unit of work holds
TaskOps(uow) == Cardinality({i \in DOMAIN uow : uow[i] = "TaskOp"})

----------------------------------------------------------------------------
(* The moderation mutex and the task queue *)

\* ModerationMutex(id_).acquire() succeeds only when nobody holds the key
MutexFree(id_) == mutex[id_] = {}

TaskKeys == UserIds \X {"block", "restore", "approve", "deactivate", "activate"}

----------------------------------------------------------------------------
(* Moderation requests *)

IdleCall ==
    [pc |-> "idle", op |-> "none", target |-> 0, result |-> "none", seen |-> 0,
     uow |-> <<>>, acquired |-> FALSE, committed |-> FALSE, enqueued |-> 0]

NoCall ==
    [svc |-> "none", op |-> "none", who |-> IdNone, id |-> IdNone, missing |-> FALSE,
     result |-> "none", hits |-> {}, n |-> 0]

Finish(call, result) == [call EXCEPT !.pc = "done", !.result = result]

\* the transitions with the precondition checked before the manage permission
Enter_PreconditionFirst(c, op, identity, id_) ==
    /\ calls[c].pc = "idle"
    /\ LET user == GetUser(id_)
           call == [calls[c] EXCEPT !.op = op, !.target = id_]
       IN  calls' = [calls EXCEPT ![c] =
             IF user = NoRecord THEN Finish(call, "PermissionDenied")
             ELSE IF PreconditionFails(op, users[id_]) THEN Finish(call,"ValidationError")
             ELSE IF ~Users_check_permission(identity, "manage", user)
                  THEN Finish(call, "PermissionDenied")
             ELSE IF TakesMutex(op)
                  THEN [call EXCEPT !.pc = "acquire", !.seen = users[id_].ver]
             ELSE [call EXCEPT !.pc = "commit", !.seen = users[id_].ver,
                               !.uow = RegisteredOps(op)]]
    /\ UNCHANGED <<users, prefs, members, groups, config, mutex, tasks, last, probe>>

\* block/restore/approve/deactivate/activate up to the mutex: the lookup, the manage
\* permission and the precondition; deactivate and activate go on to mutate and register
Enter(c, op, identity, id_) ==
    /\ calls[c].pc = "idle"
    /\ LET user == GetUser(id_)
           call == [calls[c] EXCEPT !.op = op, !.target = id_]
       IN  calls' = [calls EXCEPT ![c] =
             IF user = NoRecord THEN Finish(call, "PermissionDenied")
             ELSE IF ~Users_check_permission(identity, "manage", user)
                  THEN Finish(call, "PermissionDenied")
             ELSE IF PreconditionFails(op, users[id_]) THEN Finish(call,"ValidationError")
             ELSE IF TakesMutex(op)
                  THEN [call EXCEPT !.pc = "acquire", !.seen = users[id_].ver]
             ELSE [call EXCEPT !.pc = "commit", !.seen = users[id_].ver,
                               !.uow = RegisteredOps(op)]]
    /\ UNCHANGED <<users, prefs, members, groups, config, mutex, tasks, last, probe>>

\* the acquire fails whether or not the lock is held
Acquire_AlwaysBusy(c) ==
    /\ calls[c].pc = "acquire"
    /\ calls' = [calls EXCEPT ![c] = Finish(@, "LockAcquireFailed")]
    /\ UNCHANGED <<users, prefs, members, groups, config, mutex, tasks, last, probe>>

\* the acquire takes the lock whether or not it is held
Acquire_NoCheck(c) ==
    /\ calls[c].pc = "acquire"
    /\ mutex' = [mutex EXCEPT ![calls[c].target] = @ \cup {c}]
    /\ calls' = [calls EXCEPT ![c] =
         [@ EXCEPT !.pc = "commit", !.acquired = TRUE,
                    !.uow = RegisteredOps(calls[c].op)]]
    /\ UNCHANGED <<users, prefs, members, groups, config, tasks, last, probe>>

\* a failed acquire is swallowed and the transition goes on without the lock
Acquire_SwallowsBusy(c) ==
    /\ calls[c].pc = "acquire"
    /\ mutex' = IF MutexFree(calls[c].target)
                THEN [mutex EXCEPT ![calls[c].target] = @ \cup {c}]
                ELSE mutex
    /\ calls' = [calls EXCEPT ![c] =
         [@ EXCEPT !.pc = "commit", !.acquired = MutexFree(calls[c].target),
                    !.uow = RegisteredOps(calls[c].op)]]
    /\ UNCHANGED <<users, prefs, members, groups, config, tasks, last, probe>>

\* ModerationMutex(id_).acquire(), then the mutator and the two uow.register calls
Acquire(c) ==
    /\ calls[c].pc = "acquire"
    /\ IF MutexFree(calls[c].target)
       THEN /\ mutex' = [mutex EXCEPT ![calls[c].target] = @ \cup {c}]
            /\ calls' = [calls EXCEPT ![c] =
                 [@ EXCEPT !.pc = "commit", !.acquired = TRUE,
                            !.uow = RegisteredOps(calls[c].op)]]
       ELSE /\ calls' = [calls EXCEPT ![c] = Finish(@, "LockAcquireFailed")]
            /\ UNCHANGED mutex
    /\ UNCHANGED <<users, prefs, members, groups, config, tasks, last, probe>>

\* unit_of_work: the body returned, the registered RecordCommitOp writes the user
Commit(c) ==
    /\ calls[c].pc = "commit"
    /\ users' = [users EXCEPT ![calls[c].target] =
                    [Mutate(calls[c].op, @) EXCEPT !.ver = @ + 1]]
    /\ calls' = [calls EXCEPT ![c] =
         IF TaskOps(@.uow) > 0
         THEN [@ EXCEPT !.pc = "post_commit", !.committed = TRUE]
         ELSE [Finish(@, "ok") EXCEPT !.committed = TRUE]]
    /\ UNCHANGED <<prefs, members, groups, config, mutex, tasks, last, probe>>

\* unit_of_work: after the commit the registered TaskOp sends the callback task
PostCommit(c) ==
    /\ calls[c].pc = "post_commit"
    /\ tasks' = [tasks EXCEPT ![<<calls[c].target, calls[c].op>>] =
                    @ + TaskOps(calls[c].uow)]
    /\ calls' = [calls EXCEPT ![c] =
         [Finish(@, "ok") EXCEPT !.enqueued = @ + TaskOps(calls[c].uow)]]
    /\ UNCHANGED <<users, prefs, members, groups, config, mutex, last, probe>>

\* execute_moderation_actions: a worker runs a queued callback and releases the lock
RunCallback(u, a) ==
    /\ tasks[<<u, a>>] > 0
    /\ tasks' = [tasks EXCEPT ![<<u, a>>] = @ - 1]
    /\ mutex' = [mutex EXCEPT ![u] = {}]
    /\ UNCHANGED <<users, prefs, members, groups, config, calls, last, probe>>

\* the lock never expires
Expire_Never(u) == FALSE /\ UNCHANGED vars

\* the lock's TTL runs out; it outlasts the request that took the lock
Expire(u) ==
    /\ mutex[u] # {}
    /\ \A c \in mutex[u] : calls[c].pc = "done"
    /\ mutex' = [mutex EXCEPT ![u] = {}]
    /\ UNCHANGED <<users, prefs, members, groups, config, tasks, calls, last, probe>>

----------------------------------------------------------------------------
(* The system *)

\* no generator call is under way
NoProbe == [gen |-> "none"]

InitMembers == [u \in UserIds |-> IF u = 1 THEN {"moderators"} ELSE {}]

InitGroups ==
    [g \in GroupNames |->
        [is_managed |-> (g # "it-dep"), description |-> "initial"]]

\* a name that is protected and has no role yet
ProtectedNewName == "protected-role"

InitConfig == [groups_enabled |-> TRUE, protected |-> {"admin", ProtectedNewName}]

Init ==
    /\ users = InitUsers
    /\ prefs = [u \in UserIds |-> [visibility |-> "restricted"]]
    /\ members = InitMembers
    /\ groups = InitGroups
    /\ config = InitConfig
    /\ mutex = [u \in UserIds |-> {}]
    /\ tasks = [k \in TaskKeys |-> 0]
    /\ calls = [c \in Calls |-> IdleCall]
    /\ last = NoCall
    /\ probe = NoProbe

Next ==
    \/ \E c \in Calls, op \in ModerationOps, identity \in Identities,
          id_ \in UserIds \cup {MissingUserId} : Enter(c, op, identity, id_)
    \/ \E c \in Calls : Acquire(c)
    \/ \E c \in Calls : Commit(c)
    \/ \E c \in Calls : PostCommit(c)
    \/ \E k \in TaskKeys : RunCallback(k[1], k[2])
    \/ \E u \in UserIds : Expire(u)

Spec == Init /\ [][Next]_vars

\* the moderation transitions with user 2 a superadmin or not: the roles of the
\* accounts are those of InitMembers, and user 2 may be in the superadmin role
InitModeration ==
    /\ users = InitUsers
    /\ prefs = [u \in UserIds |-> [visibility |-> "restricted"]]
    /\ members \in {[InitMembers EXCEPT ![2] = r] : r \in {{}, {"admin"}}}
    /\ groups = InitGroups
    /\ config = InitConfig
    /\ mutex = [u \in UserIds |-> {}]
    /\ tasks = [k \in TaskKeys |-> 0]
    /\ calls = [c \in Calls |-> IdleCall]
    /\ last = NoCall
    /\ probe = NoProbe

SpecModeration == InitModeration /\ [][Next]_vars

\* a request that was accepted runs to its end, and a lock's TTL does run out
Fairness ==
    /\ \A c \in Calls : WF_vars(Acquire(c)) /\ WF_vars(Commit(c)) /\ WF_vars(PostCommit(c))
    /\ \A u \in UserIds : WF_vars(Expire(u))

SpecFair == Spec /\ Fairness

\* UsersResourceConfig.error_handlers: what the client is told
error_handlers(result) ==
    CASE result = "LockAcquireFailed" ->
            [code |-> 400,
             description |-> "User is locked due to concurrent running operation."]
      [] result = "PermissionDenied" -> [code |-> 403, description |-> "Permission denied."]
      [] result = "ValidationError" ->
            [code |-> 400, description |-> "A validation error occurred."]
      [] OTHER -> [code |-> 200, description |-> ""]

----------------------------------------------------------------------------
(* Requests served in one step: the lookups of the users and groups services *)

\* number of such requests a behaviour serves
MaxOps == 1

\* what a request came to: the service and operation, whether a lookup by id or by
\* name inside it found no record, and how it ended
Served(svc, op, identity, id_, missing, result) ==
    [svc |-> svc, op |-> op, who |-> identity.id, id |-> id_, missing |-> missing,
     result |-> result, hits |-> {}, n |-> last.n + 1]

\* updates a round trip makes after its create
MaxUpdates == 2

\* the requests a behaviour may serve: a round trip is a create and its updates
OpsBudget == IF probe.gen = "round_trip" THEN MaxUpdates + 1 ELSE MaxOps

Serve(svc, op, identity, id_, missing, result) ==
    /\ last.n < OpsBudget
    /\ last' = Served(svc, op, identity, id_, missing, result)

\* the preferences an update may carry
PrefsData ==
    { [f \in {"visibility"} |-> "public"],
      [f \in {"visibility"} |-> "restricted"],
      [f \in {"email_visibility"} |-> "public"] }

\* the payloads a group update may carry
GroupData ==
    { [f \in {"description"} |-> "updated"],
      [f \in {"is_managed"} |-> FALSE],
      [f \in {"name"} |-> "renamed"],
      [f \in {"name"} |-> ProtectedNewName] }

\* the payloads a group creation may carry
CreateData ==
    { [f \in {"name"} |-> "new-role"],
      [f \in {"name"} |-> ProtectedNewName],
      [f \in {"name"} |-> "it-dep"],
      [name |-> "new-role", is_managed |-> FALSE] }

\* GroupSchema.load with the identity in its context: a protected name is for the
\* system process only
GroupSchema_load(identity, data) ==
    IF /\ "name" \in DOMAIN data
       /\ data["name"] \in config.protected
       /\ system_process \notin identity.provides
    THEN "PermissionDenied" ELSE "ok"

\* UsersService.read, read_avatar and list_groups: lookup, then the read permission
Users_read(op, identity, id_) ==
    LET user == GetUser(id_)
    IN  /\ Serve("users", op, identity, IdInt(id_), user = NoRecord,
                 IF user = NoRecord THEN "PermissionDenied"
                 ELSE IF ~UsersAllows(identity, "read", user, IdNone) THEN "PermissionDenied"
                 ELSE "ok")
        /\ UNCHANGED <<users, prefs, members, groups, config, mutex, tasks, calls, probe>>

\* UsersService.update without its permission check
Users_update_Unchecked(identity, id_, data) ==
    LET user == GetUser(id_)
        denied == user = NoRecord
    IN  /\ Serve("users", "update", identity, IdInt(id_), user = NoRecord,
                 IF denied THEN "PermissionDenied" ELSE "ok")
        /\ prefs' = IF denied THEN prefs ELSE [prefs EXCEPT ![id_] = data]
        /\ UNCHANGED <<users, members, groups, config, mutex, tasks, calls, probe>>

\* UsersService.update: lookup, the manage permission, then the new data is stored
Users_update(identity, id_, data) ==
    LET user == GetUser(id_)
        denied == user = NoRecord \/ ~Users_check_permission(identity, "manage", user)
    IN  /\ Serve("users", "update", identity, IdInt(id_), user = NoRecord,
                 IF denied THEN "PermissionDenied" ELSE "ok")
        /\ prefs' = IF denied THEN prefs ELSE [prefs EXCEPT ![id_] = data]
        /\ UNCHANGED <<users, members, groups, config, mutex, tasks, calls, probe>>

\* UsersService.can_impersonate
Users_can_impersonate(identity, id_) ==
    LET user == GetUser(id_)
    IN  /\ Serve("users", "can_impersonate", identity, IdInt(id_), user = NoRecord,
                 IF user = NoRecord THEN "PermissionDenied"
                 ELSE IF ~Users_check_permission(identity, "impersonate", user)
                      THEN "PermissionDenied"
                 ELSE "ok")
        /\ UNCHANGED <<users, prefs, members, groups, config, mutex, tasks, calls, probe>>

\* how add_group and remove_group end, before the membership is touched
GroupCallOutcome(identity, id_, group_name, unknown) ==
    LET user == GetUser(id_)
        group == GetGroup(group_name)
    IN  IF user = NoRecord THEN "PermissionDenied"
        ELSE IF ~Users_check_permission(identity, "manage_groups", user)
             THEN "PermissionDenied"
        ELSE IF group = NoRecord THEN unknown
        ELSE IF ~UsersAllows(identity, "manage_groups", group, IdNone)
             THEN "PermissionDenied"
        ELSE "proceed"

\* whether a lookup of add_group or remove_group found no record
GroupCallMissing(identity, id_, group_name) ==
    LET user == GetUser(id_)
    IN  \/ user = NoRecord
        \/ /\ Users_check_permission(identity, "manage_groups", user)
           /\ GetGroup(group_name) = NoRecord

\* UsersService.add_group
Users_add_group(identity, id_, group_name) ==
    LET outcome == GroupCallOutcome(identity, id_, group_name, "ValidationError")
        added == group_name \notin members[id_]
    IN  /\ Serve("users", "add_group", identity, IdInt(id_),
                 GroupCallMissing(identity, id_, group_name),
                 IF outcome # "proceed" THEN outcome
                 ELSE IF added THEN "True" ELSE "False")
        /\ members' = IF outcome = "proceed"
                      THEN [members EXCEPT ![id_] = @ \cup {group_name}]
                      ELSE members
        /\ UNCHANGED <<users, prefs, groups, config, mutex, tasks, calls, probe>>

\* UsersService.remove_group
Users_remove_group(identity, id_, group_name) ==
    LET outcome == GroupCallOutcome(identity, id_, group_name, "False")
        removed == group_name \in members[id_]
    IN  /\ Serve("users", "remove_group", identity, IdInt(id_),
                 GroupCallMissing(identity, id_, group_name),
                 IF outcome # "proceed" THEN outcome
                 ELSE IF removed THEN "True" ELSE "False")
        /\ members' = IF outcome = "proceed"
                      THEN [members EXCEPT ![id_] = @ \ {group_name}]
                      ELSE members
        /\ UNCHANGED <<users, prefs, groups, config, mutex, tasks, calls, probe>>

\* GroupsService.read and read_avatar
Groups_read(op, identity, id_) ==
    LET group == GetGroup(id_)
    IN  /\ Serve("groups", op, identity, IdStr(id_), group = NoRecord,
                 IF group = NoRecord THEN "PermissionDenied"
                 ELSE IF ~GroupsAllows(identity, "read", group) THEN "PermissionDenied"
                 ELSE "ok")
        /\ UNCHANGED <<users, prefs, members, groups, config, mutex, tasks, calls, probe>>

\* GroupsService.update that falls back to the default of is_managed when the data
\* carries none
Groups_update_DefaultManaged(identity, id_, data) ==
    LET group == GetGroup(id_)
        denied == \/ group = NoRecord
                  \/ ~GroupsAllows(identity, "update", group)
                  \/ GroupSchema_load(identity, data) = "PermissionDenied"
        renames == "name" \in DOMAIN data /\ data["name"] # id_
        stored == ~denied /\ ~renames
    IN  /\ Serve("groups", "update", identity, IdStr(id_), group = NoRecord,
                 IF denied THEN "PermissionDenied"
                 ELSE IF renames THEN "ValidationError"
                 ELSE "ok")
        /\ groups' =
             IF ~stored THEN groups
             ELSE [groups EXCEPT ![id_] =
                     [description |-> IF "description" \in DOMAIN data
                                      THEN data["description"] ELSE @.description,
                      is_managed |-> IF "is_managed" \in DOMAIN data
                                     THEN data["is_managed"] ELSE TRUE]]
        /\ UNCHANGED <<users, prefs, members, config, mutex, tasks, calls, probe>>

\* GroupsService.update
Groups_update(identity, id_, data) ==
    LET group == GetGroup(id_)
        denied == \/ group = NoRecord
                  \/ ~GroupsAllows(identity, "update", group)
                  \/ GroupSchema_load(identity, data) = "PermissionDenied"
        renames == "name" \in DOMAIN data /\ data["name"] # id_
        stored == ~denied /\ ~renames
    IN  /\ Serve("groups", "update", identity, IdStr(id_), group = NoRecord,
                 IF denied THEN "PermissionDenied"
                 ELSE IF renames THEN "ValidationError"
                 ELSE "ok")
        /\ groups' =
             IF ~stored THEN groups
             ELSE [groups EXCEPT ![id_] =
                     [description |-> IF "description" \in DOMAIN data
                                      THEN data["description"] ELSE @.description,
                      is_managed |-> IF "is_managed" \in DOMAIN data
                                     THEN data["is_managed"] ELSE @.is_managed]]
        /\ UNCHANGED <<users, prefs, members, config, mutex, tasks, calls, probe>>

\* GroupsService.delete: the role goes, and with it its memberships
Groups_delete(identity, id_) ==
    LET group == GetGroup(id_)
        denied == group = NoRecord \/ ~GroupsAllows(identity, "delete", group)
    IN  /\ Serve("groups", "delete", identity, IdStr(id_), group = NoRecord,
                 IF denied THEN "PermissionDenied" ELSE "True")
        /\ groups' = IF denied THEN groups
                     ELSE [g \in DOMAIN groups \ {id_} |-> groups[g]]
        /\ members' = IF denied THEN members
                      ELSE [u \in DOMAIN members |-> members[u] \ {id_}]
        /\ UNCHANGED <<users, prefs, config, mutex, tasks, calls, probe>>

\* GroupsService.create without the schema's load
Groups_create_NoSchema(identity, data) ==
    LET denied == ~GroupsAllows(identity, "create", NoRecord)
        name == data["name"]
        exists == name \in DOMAIN groups
        created == ~denied /\ ~exists
    IN  /\ Serve("groups", "create", identity, IdStr(data["name"]), FALSE,
                 IF denied THEN "PermissionDenied"
                 ELSE IF exists THEN "ValidationError"
                 ELSE "ok")
        /\ groups' =
             IF ~created THEN groups
             ELSE [g \in DOMAIN groups \cup {name} |->
                     IF g # name THEN groups[g]
                     ELSE [description |-> "",
                           is_managed |-> IF "is_managed" \in DOMAIN data
                                          THEN data["is_managed"] ELSE TRUE]]
        /\ UNCHANGED <<users, prefs, members, config, mutex, tasks, calls, probe>>

\* GroupsService.create: the create permission, the schema, then the new role
Groups_create(identity, data) ==
    LET denied == \/ ~GroupsAllows(identity, "create", NoRecord)
                  \/ GroupSchema_load(identity, data) = "PermissionDenied"
        name == data["name"]
        exists == name \in DOMAIN groups
        created == ~denied /\ ~exists
    IN  /\ Serve("groups", "create", identity, IdStr(data["name"]), FALSE,
                 IF denied THEN "PermissionDenied"
                 ELSE IF exists THEN "ValidationError"
                 ELSE "ok")
        /\ groups' =
             IF ~created THEN groups
             ELSE [g \in DOMAIN groups \cup {name} |->
                     IF g # name THEN groups[g]
                     ELSE [description |-> "",
                           is_managed |-> IF "is_managed" \in DOMAIN data
                                          THEN data["is_managed"] ELSE TRUE]]
        /\ UNCHANGED <<users, prefs, members, config, mutex, tasks, calls, probe>>

\* the document the search index holds for a role
GroupDoc(g) == [id |-> g, name |-> g, is_managed |-> groups[g].is_managed]

\* RecordService.create_search: the filters of the permission's generators are
\* alternatives, a document is returned when one of them matches
SearchHits(filters, docs) ==
    {d \in docs : \E i \in DOMAIN filters : Matches(filters[i], d)}

\* GroupsService.search: the search permission, then the search under the filters of
\* the read permission
Groups_search(identity) ==
    LET denied == ~GroupsAllows(identity, "search", NoRecord)
        filters == Policy_query_filters(GroupsPermissionPolicy("read"), identity)
        found == SearchHits(filters, {GroupDoc(g) : g \in DOMAIN groups})
    IN  /\ last.n < OpsBudget
        /\ last' = [Served("groups", "search", identity, IdNone, FALSE,
                           IF denied THEN "PermissionDenied" ELSE "ok")
                       EXCEPT !.hits = IF denied THEN {} ELSE {d.id : d \in found}]
        /\ UNCHANGED <<users, prefs, members, groups, config, mutex, tasks, calls, probe>>

UserLookupIds == UserIds \cup {MissingUserId}

GroupLookupNames == GroupNames \cup {MissingGroup, "new-role", ProtectedNewName}

\* the accounts' roles at the start: user 2 may be a superadmin
InitOpsMembers ==
    {[u \in UserIds |-> IF u = 1 THEN {"moderators"} ELSE IF u = 2 THEN r ELSE {}] :
        r \in {{}, {"admin"}}}

InitOps ==
    /\ users = InitUsers
    /\ prefs = [u \in UserIds |-> [visibility |-> "restricted"]]
    /\ members \in InitOpsMembers
    /\ groups = InitGroups
    /\ config \in {[InitConfig EXCEPT !.groups_enabled = b] : b \in BOOLEAN}
    /\ mutex = [u \in UserIds |-> {}]
    /\ tasks = [k \in TaskKeys |-> 0]
    /\ calls = [c \in Calls |-> IdleCall]
    /\ last = NoCall
    /\ probe = NoProbe

NextOps ==
    \/ \E op \in {"read", "read_avatar", "list_groups"}, identity \in Identities,
          id_ \in UserLookupIds : Users_read(op, identity, id_)
    \/ \E identity \in Identities, id_ \in UserLookupIds, data \in PrefsData :
          Users_update(identity, id_, data)
    \/ \E identity \in Identities, id_ \in UserLookupIds :
          Users_can_impersonate(identity, id_)
    \/ \E identity \in Identities, id_ \in UserLookupIds, g \in GroupLookupNames :
          Users_add_group(identity, id_, g)
    \/ \E identity \in Identities, id_ \in UserLookupIds, g \in GroupLookupNames :
          Users_remove_group(identity, id_, g)
    \/ \E op \in {"read", "read_avatar"}, identity \in Identities,
          id_ \in GroupLookupNames : Groups_read(op, identity, id_)
    \/ \E identity \in Identities, id_ \in GroupLookupNames, data \in GroupData :
          Groups_update(identity, id_, data)
    \/ \E identity \in Identities, id_ \in GroupLookupNames :
          Groups_delete(identity, id_)
    \/ \E identity \in Identities, data \in CreateData : Groups_create(identity, data)

SpecOps == InitOps /\ [][NextOps]_vars

\* a start with the preferences, roles of the accounts, role table and configuration
\* drawn from the given sets
Start(P, M, G, C) ==
    /\ users = InitUsers
    /\ prefs \in P
    /\ members \in M
    /\ groups \in G
    /\ config \in C
    /\ mutex = [u \in UserIds |-> {}]
    /\ tasks = [k \in TaskKeys |-> 0]
    /\ calls = [c \in Calls |-> IdleCall]
    /\ last = NoCall
    /\ probe = NoProbe

\* the users service on its own: user 2 has any of the preferences, and may be a
\* superadmin
InitUsersSvc ==
    Start({[u \in UserIds |-> IF u = 2 THEN d ELSE [visibility |-> "restricted"]] :
              d \in PrefsData},
          InitOpsMembers, {InitGroups}, {InitConfig})

NextUsersSvc ==
    \/ \E op \in {"read", "read_avatar", "list_groups"}, identity \in Identities,
          id_ \in UserLookupIds : Users_read(op, identity, id_)
    \/ \E identity \in Identities, id_ \in UserLookupIds, data \in PrefsData :
          Users_update(identity, id_, data)
    \/ \E identity \in Identities, id_ \in UserLookupIds :
          Users_can_impersonate(identity, id_)
    \/ \E identity \in Identities, id_ \in UserLookupIds, g \in GroupLookupNames :
          Users_add_group(identity, id_, g)
    \/ \E identity \in Identities, id_ \in UserLookupIds, g \in GroupLookupNames :
          Users_remove_group(identity, id_, g)

SpecUsers == InitUsersSvc /\ [][NextUsersSvc]_vars

\* the groups service on its own: groups may be switched off, the superadmin role may
\* be unmanaged, and user 2 may be a superadmin
InitGroupsSvc ==
    Start({[u \in UserIds |-> [visibility |-> "restricted"]]},
          InitOpsMembers,
          {[InitGroups EXCEPT !["admin"].is_managed = b] : b \in BOOLEAN},
          {[InitConfig EXCEPT !.groups_enabled = b] : b \in BOOLEAN})

NextGroupsSvc ==
    \/ \E op \in {"read", "read_avatar"}, identity \in Identities,
          id_ \in GroupLookupNames : Groups_read(op, identity, id_)
    \/ \E identity \in Identities, id_ \in GroupLookupNames, data \in GroupData :
          Groups_update(identity, id_, data)
    \/ \E identity \in Identities, id_ \in GroupLookupNames :
          Groups_delete(identity, id_)
    \/ \E identity \in Identities, data \in CreateData : Groups_create(identity, data)
    \/ \E identity \in Identities : Groups_search(identity)

SpecGroups == InitGroupsSvc /\ [][NextGroupsSvc]_vars

----------------------------------------------------------------------------
(* A round trip of the groups service: a create, then updates *)

\* the payloads of an update that carries no is_managed
UpdateDataUnmanagedKept ==
    { [f \in {"description"} |-> "updated"],
      [f \in {"description"} |-> ""],
      [f \in {"name"} |-> "new-role"],
      [f \in {"name"} |-> "renamed"] }

InitRoundTrip ==
    /\ users = InitUsers
    /\ prefs = [u \in UserIds |-> [visibility |-> "restricted"]]
    /\ members = InitMembers
    /\ groups = InitGroups
    /\ config = InitConfig
    /\ mutex = [u \in UserIds |-> {}]
    /\ tasks = [k \in TaskKeys |-> 0]
    /\ calls = [c \in Calls |-> IdleCall]
    /\ last = NoCall
    /\ probe = [gen |-> "round_trip"]

NextRoundTrip ==
    \/ \E identity \in Identities :
          Groups_create(identity, [name |-> "new-role", is_managed |-> FALSE])
    \/ \E identity \in Identities, id_ \in GroupLookupNames, data \in UpdateDataUnmanagedKept :
          Groups_update(identity, id_, data)

SpecRoundTrip == InitRoundTrip /\ [][NextRoundTrip]_vars

----------------------------------------------------------------------------
(* User results: the roles projection of UserItem.data and UserList.hits *)

\* ", ".join(names)
RECURSIVE Join(_)
Join(names) ==
    IF names = <<>> THEN ""
    ELSE IF Len(names) = 1 THEN names[1]
    ELSE names[1] \o ", " \o Join(Tail(names))

\* _role_names(user): the names of user.roles, in the order the relationship yields them
role_names(roles) == roles

\* _can_manage_groups(identity, service): the manage_groups permission without a record
can_manage_groups(identity) == UsersAllows(identity, "manage_groups", NoRecord, IdNone)

\* _apply_roles(payload, roles, has_permission)
apply_roles(payload, roles, has_permission) ==
    IF ~has_permission THEN payload
    ELSE LET value == IF roles # <<>> THEN Join(roles) ELSE ""
             profile == [k \in DOMAIN payload["profile"] \cup {"roles"} |->
                            IF k = "roles" THEN value ELSE payload["profile"][k]]
         IN  [k \in DOMAIN payload \cup {"roles"} |->
                 IF k = "roles" THEN value
                 ELSE IF k = "profile" THEN profile
                 ELSE payload[k]]

\* schema.dump(user): the projection of the user before the roles are applied
UserSchema_dump(u) == [id |-> u, profile |-> [full_name |-> ""]]

\* the orders in which a relationship may yield the elements of a set
Orders(S) ==
    {o \in [1..Cardinality(S) -> S] : \A i, j \in 1..Cardinality(S) : o[i] = o[j] => i = j}

\* the accounts' roles when results are built: user 2 may hold none, one or two roles
InitRolesMembers ==
    {[u \in UserIds |-> IF u = 1 THEN {"moderators"} ELSE IF u = 2 THEN r ELSE {}] :
        r \in {{}, {"admin"}, {"it-dep", "moderators"}, {"admin", "it-dep"}}}

InitRoles ==
    /\ users = InitUsers
    /\ prefs = [u \in UserIds |-> [visibility |-> "restricted"]]
    /\ members \in InitRolesMembers
    /\ groups = InitGroups
    /\ config = InitConfig
    /\ mutex = [u \in UserIds |-> {}]
    /\ tasks = [k \in TaskKeys |-> 0]
    /\ calls = [c \in Calls |-> IdleCall]
    /\ last = NoCall
    /\ \E result \in {"UserItem", "UserList"}, identity \in Identities, u \in UserIds :
          \E roles \in Orders(members[u]) :
              probe = [gen |-> result, identity |-> identity, user |-> u, roles |-> roles,
                       done |-> FALSE, data |-> UserSchema_dump(u)]

\* UserItem.data
UserItem_data ==
    /\ probe.gen = "UserItem"
    /\ ~probe.done
    /\ probe' = [probe EXCEPT
                    !.done = TRUE,
                    !.data = apply_roles(UserSchema_dump(probe.user), role_names(probe.roles),
                                         can_manage_groups(probe.identity))]
    /\ UNCHANGED <<users, prefs, members, groups, config, mutex, tasks, calls, last>>

\* UserList.hits, for one hit
UserList_hits ==
    /\ probe.gen = "UserList"
    /\ ~probe.done
    /\ LET has_permission == can_manage_groups(probe.identity)
       IN  probe' = [probe EXCEPT
                        !.done = TRUE,
                        !.data = apply_roles(UserSchema_dump(probe.user),
                                             role_names(probe.roles), has_permission)]
    /\ UNCHANGED <<users, prefs, members, groups, config, mutex, tasks, calls, last>>

NextRoles == UserItem_data \/ UserList_hits

SpecRoles == InitRoles /\ [][NextRoles]_vars

----------------------------------------------------------------------------
(* A generator called on its own, with arguments of every kind *)

\* ids -MaxProbeId..MaxProbeId are tried, 0 and the negative ones among them
MaxProbeId == 2

\* the ids a record or an actor may carry: integers, and strings as a session stores them
ProbeIds == {IdInt(n) : n \in (0 - MaxProbeId)..MaxProbeId} \cup {IdStr("1"), IdStr("system")}

\* record=None, or a user record with one of the ids
ProbeRecords == {NoRecord} \cup {[kind |-> "user", id |-> i] : i \in ProbeIds}

\* actor_id=None, or one of the ids
ProbeActors == {IdNone} \cup ProbeIds

InitGen ==
    /\ users = InitUsers
    /\ prefs = [u \in UserIds |-> [visibility |-> "restricted"]]
    /\ members = InitMembers
    /\ groups = InitGroups
    /\ config = InitConfig
    /\ mutex = [u \in UserIds |-> {}]
    /\ tasks = [k \in TaskKeys |-> 0]
    /\ calls = [c \in Calls |-> IdleCall]
    /\ last = NoCall
    /\ probe \in [gen : {"PreventSelf"}, record : ProbeRecords, actor_id : ProbeActors,
                  done : {FALSE}, excludes : {{}}]

\* PreventSelf().excludes(record=record, actor_id=actor_id)
PreventSelf_call ==
    /\ probe.gen = "PreventSelf"
    /\ ~probe.done
    /\ probe' = [probe EXCEPT
                    !.done = TRUE,
                    !.excludes = PreventSelf_excludes(Ctx(probe.record, NoIdentity, probe.actor_id))]
    /\ UNCHANGED <<users, prefs, members, groups, config, mutex, tasks, calls, last>>

NextGen == PreventSelf_call

SpecGen == InitGen /\ [][NextGen]_vars

----------------------------------------------------------------------------
(* The query filter of a generator, asked for on its own with record=None *)

\* the generators of a list and the generators inside their branches
RECURSIVE SubGenerators(_)
SubGenerators(generators) ==
    UNION { {generators[i]}
            \cup (IF generators[i].gen \in {"IfPublic", "IfGroupNotManaged", "IfSuperAdmin"}
                  THEN SubGenerators(generators[i].then_)
                       \cup SubGenerators(generators[i].else_)
                  ELSE {})
            : i \in DOMAIN generators }

\* every generator instance of the Users, Groups and Domain policies
PolicyGenerators ==
    UNION ( {SubGenerators(UsersPermissionPolicy(a)) : a \in UsersActions}
            \cup {SubGenerators(GroupsPermissionPolicy(a)) : a \in GroupsActions}
            \cup {SubGenerators(DomainPermissionPolicy(a)) : a \in DomainActions} )

InitFilter ==
    /\ users = InitUsers
    /\ prefs = [u \in UserIds |-> [visibility |-> "restricted"]]
    /\ members \in InitOpsMembers
    /\ groups = InitGroups
    /\ config = InitConfig
    /\ mutex = [u \in UserIds |-> {}]
    /\ tasks = [k \in TaskKeys |-> 0]
    /\ calls = [c \in Calls |-> IdleCall]
    /\ last = NoCall
    /\ \E g \in PolicyGenerators, identity \in Identities \cup {NoIdentity} :
          /\ identity = NoIdentity => g.gen = "IfGroupNotManaged"
          /\ probe = [gen |-> "query_filter", generator |-> g, identity |-> identity,
                      done |-> FALSE, filter |-> NoFilter]

\* generator.query_filter(identity=identity)
query_filter_call ==
    /\ probe.gen = "query_filter"
    /\ ~probe.done
    /\ probe' = [probe EXCEPT
                    !.done = TRUE,
                    !.filter = Gen_query_filter(probe.generator, probe.identity)]
    /\ UNCHANGED <<users, prefs, members, groups, config, mutex, tasks, calls, last>>

NextFilter == query_filter_call

SpecFilter == InitFilter /\ [][NextFilter]_vars

----------------------------------------------------------------------------
(* Properties of the moderation transitions *)

LockedOps == {"block", "restore", "approve"}

\* the request in slot c got past the lookup, the permission and the precondition
PassedChecks(c) ==
    /\ calls[c].pc # "idle"
    /\ calls[c].result \notin {"PermissionDenied", "ValidationError"}

\* slot c leaves idle in this step: its request ran up to the mutex
Entering(c) == calls[c].pc = "idle" /\ calls'[c].pc # "idle"

\* slot c runs its acquire in this step
Acquiring(c) == calls[c].pc = "acquire" /\ calls'[c].pc # "acquire"

\* C1: two concurrent block calls on the same user, both of which found the user not
\* blocked in the same pre-transition state: once both have ended, exactly one has
\* succeeded and the other ended with the lock-busy error, and one block callback was
\* sent, not two.
C1_ConcurrentBlocksTransitionOnce ==
    \A c1, c2 \in Calls :
        ( /\ c1 # c2
          /\ calls[c1].op = "block" /\ calls[c2].op = "block"
          /\ calls[c1].target = calls[c2].target
          /\ PassedChecks(c1) /\ PassedChecks(c2)
          /\ calls[c1].seen = calls[c2].seen
          /\ calls[c1].pc = "done" /\ calls[c2].pc = "done" )
        => /\ {calls[c1].result, calls[c2].result} = {"ok", "LockAcquireFailed"}
           /\ calls[c1].enqueued + calls[c2].enqueued = 1

\* C2: at most one request holds the moderation mutex of a user id, and an acquire on
\* a held key ends the request at once with the lock-busy error.
C2_AtMostOneHolder ==
    /\ [](\A u \in UserIds : Cardinality(mutex[u]) <= 1)
    /\ [][\A c \in Calls :
            (Acquiring(c) /\ mutex[calls[c].target] # {})
            => /\ calls'[c].pc = "done"
               /\ calls'[c].result = "LockAcquireFailed"
               /\ c \notin mutex'[calls[c].target]]_vars

C2_Witness ==
    \E c1, c2 \in Calls :
        /\ c1 # c2
        /\ calls[c1].target \in UserIds
        /\ mutex[calls[c1].target] = {c1}
        /\ calls[c2].target = calls[c1].target
        /\ calls[c2].pc = "done"
        /\ calls[c2].result = "LockAcquireFailed"

\* C3: a block, restore or approve request that has evaluated its precondition has
\* acquired the mutex before, and no two such requests on one user pass the
\* precondition against the same pre-transition state.
C3_PreconditionUnderMutex ==
    /\ \A c \in Calls :
          (calls[c].op \in LockedOps /\ PassedChecks(c)) => calls[c].acquired
    /\ \A c1, c2 \in Calls :
          ( /\ c1 # c2
            /\ calls[c1].op \in LockedOps /\ calls[c2].op \in LockedOps
            /\ calls[c1].target = calls[c2].target
            /\ PassedChecks(c1) /\ PassedChecks(c2) )
          => calls[c1].seen # calls[c2].seen

\* C4 as claimed: every transition that has mutated the user acquired the mutex first.
C4_EveryTransitionLocks ==
    \A c \in Calls : calls[c].uow # <<>> => calls[c].acquired

\* C4: block, restore and approve mutate the user only after acquiring the mutex keyed
\* by the target user id; deactivate and activate mutate without acquiring any mutex.
C4_OnlyBlockRestoreApproveLock ==
    \A c \in Calls :
        /\ calls[c].uow # <<>> =>
              (calls[c].acquired <=> calls[c].op \in {"block", "restore", "approve"})
        /\ calls[c].acquired => calls[c].uow # <<>>
        /\ \A u \in UserIds : c \in mutex[u] => (calls[c].target = u /\ calls[c].acquired)

C4_Witness ==
    \E c1, c2 \in Calls :
        /\ calls[c1].op = "block" /\ calls[c1].pc = "commit" /\ calls[c1].acquired
        /\ mutex[calls[c1].target] = {c1}
        /\ calls[c2].op = "deactivate" /\ calls[c2].target = calls[c1].target
        /\ calls[c2].committed /\ ~calls[c2].acquired

\* C5: a moderation mutex that is held is eventually released: no user stays locked
\* forever.
C5_MutexEventuallyReleased ==
    \A u \in UserIds : (mutex[u] # {}) ~> (mutex[u] = {})

C5_Witness ==
    \E c \in Calls :
        /\ calls[c].acquired /\ calls[c].pc = "done" /\ calls[c].result = "ok"
        /\ mutex[calls[c].target] = {}

\* C6: a permitted block of a blocked user, restore of a user that is not blocked and
\* approve of a verified user end with a ValidationError; the user, the mutex and the
\* task queue stay as they were and the unit of work holds nothing.
C6_PreconditionFailureChangesNothing ==
    [][\A c \in Calls :
         ( /\ Entering(c)
           /\ calls'[c].target \in UserIds
           /\ calls'[c].result # "PermissionDenied"
           /\ \/ calls'[c].op = "block" /\ users[calls'[c].target].blocked
              \/ calls'[c].op = "restore" /\ ~users[calls'[c].target].blocked
              \/ calls'[c].op = "approve" /\ users[calls'[c].target].verified )
         => /\ calls'[c].pc = "done"
            /\ calls'[c].result = "ValidationError"
            /\ calls'[c].uow = <<>>
            /\ ~calls'[c].committed /\ calls'[c].enqueued = 0
            /\ UNCHANGED <<users, mutex, tasks>>]_vars

C6_Witness ==
    \E c \in Calls :
        /\ calls[c].op = "block" /\ calls[c].pc = "done"
        /\ calls[c].result = "ValidationError"
        /\ users[calls[c].target].blocked
        /\ calls[c].uow = <<>>

\* C7 as claimed: a permitted deactivate of an inactive user and a permitted activate
\* of an active user end with a ValidationError, whatever the confirmed state.
C7_NoOpAlwaysFails ==
    [][\A c \in Calls :
         ( /\ Entering(c)
           /\ calls'[c].target \in UserIds
           /\ calls'[c].result # "PermissionDenied"
           /\ \/ calls'[c].op = "deactivate" /\ ~users[calls'[c].target].active
              \/ calls'[c].op = "activate" /\ users[calls'[c].target].active )
         => calls'[c].result = "ValidationError"]_vars

\* C7: a permitted deactivate of an inactive user ends with a ValidationError; a
\* permitted activate ends with a ValidationError when the user is active and
\* confirmed, and goes through when the user is active but not confirmed.
C7_ActivateFailsOnlyIfConfirmed ==
    [][\A c \in Calls :
         ( /\ Entering(c)
           /\ calls'[c].target \in UserIds
           /\ calls'[c].result # "PermissionDenied" )
         => LET row == users[calls'[c].target]
                failed == calls'[c].pc = "done" /\ calls'[c].result = "ValidationError"
            IN  /\ calls'[c].op = "deactivate" => (failed <=> ~row.active)
                /\ calls'[c].op = "activate" => (failed <=> (row.active /\ row.confirmed))
                /\ failed => UNCHANGED <<users, mutex, tasks>>]_vars

C7_Witness ==
    \E c \in Calls :
        /\ calls[c].op = "activate" /\ calls[c].result = "ok"
        /\ calls[c].seen = 0
        /\ InitUsers[calls[c].target].active
        /\ ~InitUsers[calls[c].target].confirmed

\* C8 as claimed: every transition that succeeded has sent exactly one callback.
C8_EverySuccessEnqueuesOne ==
    \A c \in Calls :
        (calls[c].pc = "done" /\ calls[c].result = "ok") => calls[c].enqueued = 1

\* C8: a block, restore or approve that succeeded has sent exactly one callback for its
\* user and action, and sent it after its commit; a deactivate or activate that
\* succeeded has sent none; a transition that failed has sent none.
C8_CallbackAfterCommit ==
    /\ \A c \in Calls :
          /\ calls[c].enqueued > 0 => calls[c].committed
          /\ (calls[c].pc = "done" /\ calls[c].result = "ok") =>
                /\ calls[c].committed
                /\ calls[c].enqueued =
                      IF calls[c].op \in {"block", "restore", "approve"} THEN 1 ELSE 0
          /\ (calls[c].pc = "done" /\ calls[c].result # "ok") =>
                (calls[c].enqueued = 0 /\ ~calls[c].committed)
    /\ \A k \in TaskKeys :
          tasks[k] <= Cardinality({c \in Calls :
                          /\ calls[c].enqueued = 1
                          /\ calls[c].target = k[1]
                          /\ calls[c].op = k[2]})

C8_Witness ==
    \E c1, c2 \in Calls :
        /\ calls[c1].op = "block" /\ calls[c1].result = "ok"
        /\ calls[c1].enqueued = 1 /\ tasks[<<calls[c1].target, "block">>] = 1
        /\ calls[c2].op = "deactivate" /\ calls[c2].result = "ok"
        /\ calls[c2].enqueued = 0

\* C9: an acquire that finds the mutex held ends the request with the lock-busy error,
\* which the client sees as "User is locked due to concurrent running operation.";
\* the user, the unit of work, the mutex and the task queue stay as they were.
C9_LockBusyChangesNothing ==
    [][\A c \in Calls :
         (Acquiring(c) /\ mutex[calls[c].target] # {})
         => /\ calls'[c].pc = "done"
            /\ calls'[c].result = "LockAcquireFailed"
            /\ error_handlers(calls'[c].result).description =
                  "User is locked due to concurrent running operation."
            /\ calls'[c].uow = <<>>
            /\ ~calls'[c].committed /\ calls'[c].enqueued = 0
            /\ UNCHANGED <<users, mutex, tasks>>]_vars

C9_Witness ==
    \E c \in Calls :
        /\ calls[c].op = "restore" /\ calls[c].pc = "done"
        /\ calls[c].result = "LockAcquireFailed"
        /\ calls[c].uow = <<>>
        /\ mutex[calls[c].target] # {}

\* C10: a request whose lookup by id or by name found no record ends in
\* PermissionDenied.
C10_MissingRecordIsPermissionDenied ==
    /\ last.missing => last.result = "PermissionDenied"
    /\ \A c \in Calls :
          (calls[c].pc = "done" /\ calls[c].target \notin UserIds) =>
              calls[c].result = "PermissionDenied"

----------------------------------------------------------------------------
(* Properties of the generators and the policies *)

\* C11: PreventSelf.excludes holds the user need of record.id exactly when a record and
\* an actor_id are given and actor_id equals record.id, and is empty otherwise, for
\* every id, 0 and negative ids included.
C11_PreventSelfExcludesExactlySelf ==
    (probe.gen = "PreventSelf" /\ probe.done) =>
        LET self == /\ probe.record # NoRecord
                    /\ probe.actor_id # IdNone
                    /\ probe.actor_id = probe.record.id
        IN  /\ self => probe.excludes = {UserNeed(probe.record.id)}
            /\ ~self => probe.excludes = {}

C11_Witness ==
    /\ probe.gen = "PreventSelf" /\ probe.done
    /\ probe.record # NoRecord
    /\ probe.record.id = IdInt(0)
    /\ probe.actor_id = IdInt(0)
    /\ probe.excludes = {UserNeed(IdInt(0))}

\* the caller is a system process
IsSystem(identity) == system_process \in identity.provides

\* the caller is in a role that was granted superuser-access
IsSuperadmin(identity) == RoleNeed("admin") \in identity.provides

\* the caller is in a role that was granted administration-moderation
IsModerator(identity) == RoleNeed("moderators") \in identity.provides

\* the caller is the account u itself
IsSelf(identity, u) == identity.id = IdInt(u) /\ UserNeed(IdInt(u)) \in identity.provides

\* C12 as claimed: manage and impersonate are never allowed on oneself, and a superadmin
\* is impersonated only by identities that hold superuser access.
C12_SuperadminImpersonatedBySuperadminOnly ==
    \A identity \in Identities, u \in UserIds :
        /\ IsSelf(identity, u) =>
              /\ ~Users_check_permission(identity, "manage", GetUser(u))
              /\ ~Users_check_permission(identity, "impersonate", GetUser(u))
        /\ ( /\ IsSuperadmin(get_identity(u))
              /\ Users_check_permission(identity, "impersonate", GetUser(u)) )
           => IsSuperadmin(identity)

\* C12: manage and impersonate are never allowed on oneself, whatever action the
\* identity holds; a superadmin is impersonated only by another superadmin or by a
\* system process, never by an identity that holds only the moderation action; and no
\* update or can_impersonate call on oneself goes through.
C12_NoSelfManageOrImpersonate ==
    /\ \A identity \in Identities, u \in UserIds :
          /\ IsSelf(identity, u) =>
                /\ ~Users_check_permission(identity, "manage", GetUser(u))
                /\ ~Users_check_permission(identity, "impersonate", GetUser(u))
          /\ ( /\ IsSuperadmin(get_identity(u))
                /\ Users_check_permission(identity, "impersonate", GetUser(u)) )
             => (IsSuperadmin(identity) \/ IsSystem(identity))
    /\ (last.svc = "users" /\ last.op \in {"update", "can_impersonate"} /\ last.result = "ok")
          => last.who # last.id
    /\ ( /\ last.op = "can_impersonate" /\ last.result = "ok"
          /\ "admin" \in members[last.id.v] )
          => \/ last.who = system_identity.id
             \/ \E u \in UserIds : last.who = IdInt(u) /\ "admin" \in members[u]

C12_Witness ==
    /\ last.op = "can_impersonate"
    /\ last.who = IdInt(1) /\ "moderators" \in members[1] /\ "admin" \notin members[1]
    /\ last.id = IdInt(2) /\ "admin" \in members[2]
    /\ last.result = "PermissionDenied"

\* the caller is neither a moderator, a superadmin nor a system process
IsPlain(identity) == ~IsModerator(identity) /\ ~IsSuperadmin(identity) /\ ~IsSystem(identity)

\* the stored preferences of account u say visibility "public"
StoredPublic(u) == "visibility" \in DOMAIN prefs[u] /\ prefs[u]["visibility"] = "public"

\* C13: an identity that is neither a moderator, a superadmin nor a system process may
\* read a user exactly when the user's preferences.visibility is "public" or the user is
\* the identity's own; a missing visibility counts as restricted; and a read by such a
\* caller ends accordingly.
C13_PlainReadIffPublicOrSelf ==
    /\ \A identity \in Identities, u \in UserIds :
          IsPlain(identity) =>
              ( UsersAllows(identity, "read", GetUser(u), IdNone)
                <=> (StoredPublic(u) \/ IsSelf(identity, u)) )
    /\ \A identity \in Identities :
          ( /\ last.svc = "users" /\ last.op \in {"read", "read_avatar", "list_groups"}
            /\ ~last.missing
            /\ last.who = identity.id /\ IsPlain(identity) )
          => ( last.result = "ok"
               <=> (StoredPublic(last.id.v) \/ IsSelf(identity, last.id.v)) )

C13_Witness ==
    /\ last.svc = "users" /\ last.op = "read"
    /\ last.who = anon_identity.id
    /\ last.id = IdInt(2)
    /\ "visibility" \notin DOMAIN prefs[2]
    /\ last.result = "PermissionDenied"

\* C14 as claimed: an update call made by an identity that is not a system process
\* changes no user's data.
C14_OnlySystemUpdatesUsers ==
    [][(last'.svc = "users" /\ last'.op = "update" /\ last'.who # system_identity.id)
          => UNCHANGED <<users, prefs>>]_vars

\* C14: the create, update and delete actions of the Users policy are granted to a
\* system process and to superuser access only; UsersService.update asks for the manage
\* action instead: it stores the new data for a system process and for a moderator or
\* superadmin acting on another user, and a call that is denied changes nothing.
C14_UpdateNeedsManage ==
    /\ [](\A identity \in Identities, a \in {"create", "update", "delete"},
             record \in {NoRecord} \cup {GetUser(u) : u \in UserIds} :
             UsersAllows(identity, a, record, IdNone)
                 => (IsSystem(identity) \/ IsSuperadmin(identity)))
    /\ [][(last'.svc = "users" /\ last'.op = "update") =>
            /\ UNCHANGED users
            /\ last'.result # "ok" => UNCHANGED prefs
            /\ last'.result = "ok" =>
                  /\ last'.who # last'.id
                  /\ \E identity \in Identities :
                        /\ identity.id = last'.who
                        /\ IsSystem(identity) \/ IsModerator(identity) \/ IsSuperadmin(identity)
                  /\ \A u \in UserIds : IdInt(u) # last'.id => prefs'[u] = prefs[u]]_vars

C14_Witness ==
    /\ last.svc = "users" /\ last.op = "update" /\ last.result = "ok"
    /\ last.who = IdInt(1) /\ "moderators" \in members[1]
    /\ last.id = IdInt(2)
    /\ prefs[2] = [f \in {"email_visibility"} |-> "public"]

\* the record each action of the Groups policy is asked about: none for create and
\* search, an existing role for the others
GroupPolicyCases ==
    {<<a, NoRecord>> : a \in {"create", "search"}}
    \cup {<<a, GetGroup(g)>> : a \in {"read", "update", "delete"}, g \in DOMAIN groups}

\* C15: with USERS_RESOURCES_GROUPS_ENABLED false, every action of the Groups policy is
\* denied to every identity that is not a system process, and every groups-service
\* request of such an identity ends in PermissionDenied.
C15_GroupsDisabledDeniesAll ==
    ~config.groups_enabled =>
        /\ \A identity \in Identities, k \in GroupPolicyCases :
              ~IsSystem(identity) => ~GroupsAllows(identity, k[1], k[2])
        /\ (last.svc = "groups" /\ last.who # system_identity.id)
              => last.result = "PermissionDenied"

\* C16: update and delete of an existing group whose id or name is protected are
\* granted to a system process only: for every other identity, moderators and
\* superadmins included, the request ends in PermissionDenied and leaves the group and
\* its members as they were; a system process updates it.
C16_ProtectedGroupSystemOnly ==
    /\ [](\A identity \in Identities, g \in DOMAIN groups, a \in {"update", "delete"} :
             (g \in config.protected /\ ~IsSystem(identity))
                 => ~GroupsAllows(identity, a, GetGroup(g)))
    /\ [][( /\ last'.svc = "groups" /\ last'.op \in {"update", "delete"}
             /\ last'.id.v \in config.protected \cap DOMAIN groups )
           => IF last'.who # system_identity.id
              THEN last'.result = "PermissionDenied" /\ UNCHANGED <<groups, members>>
              ELSE last'.result # "PermissionDenied"]_vars

C16_Witness ==
    /\ last.svc = "groups" /\ last.op = "update"
    /\ last.id = IdStr("admin") /\ "admin" \in config.protected
    /\ last.who = IdInt(2) /\ "admin" \in members[2]
    /\ config.groups_enabled
    /\ last.result = "PermissionDenied"
    /\ groups["admin"].description = "initial"

C18_SystemRenames ==
    [][\A identity \in Identities, id_ \in DOMAIN groups, data \in GroupData :
         ( /\ "name" \in DOMAIN data
           /\ data["name"] # id_
           /\ Groups_update(identity, id_, data) )
         => /\ IsSystem(identity) =>
                  /\ last'.result = "ok"
                  /\ data["name"] \in DOMAIN groups'
            /\ ( /\ (IsModerator(identity) \/ IsSuperadmin(identity))
                 /\ data["name"] \in config.protected )
               => last'.result = "PermissionDenied"]_vars

IsPlainUser(identity) == IsPlain(identity) /\ authenticated_user \in identity.provides

\* the role was granted superuser-access
RoleIsSuperadmin(g) == <<"superuser-access", g>> \in ActionRoles

\* C20 as claimed: with groups enabled, a plain authenticated identity may read a group
\* exactly when the group is unmanaged, and an anonymous identity may read none.
C20_PlainReadsIffUnmanaged ==
    config.groups_enabled =>
        \A identity \in Identities, g \in DOMAIN groups :
            /\ IsPlainUser(identity) =>
                  (GroupsAllows(identity, "read", GetGroup(g)) <=> ~groups[g].is_managed)
            /\ identity = anon_identity => ~GroupsAllows(identity, "read", GetGroup(g))

\* C20: with groups enabled, a plain authenticated identity may read a group exactly
\* when the group is unmanaged and is not a role that was granted superuser access; an
\* anonymous identity may read none; and a read by such a caller ends accordingly.
C20_PlainReadsUnmanagedNonSuperadmin ==
    config.groups_enabled =>
        /\ \A identity \in Identities, g \in DOMAIN groups :
              /\ IsPlainUser(identity) =>
                    ( GroupsAllows(identity, "read", GetGroup(g))
                      <=> (~groups[g].is_managed /\ ~RoleIsSuperadmin(g)) )
              /\ identity = anon_identity => ~GroupsAllows(identity, "read", GetGroup(g))
        /\ \A identity \in Identities :
              ( /\ last.svc = "groups" /\ last.op \in {"read", "read_avatar"}
                /\ ~last.missing
                /\ last.who = identity.id
                /\ (IsPlainUser(identity) \/ identity = anon_identity) )
              => ( last.result = "ok"
                   <=> /\ IsPlainUser(identity)
                       /\ ~groups[last.id.v].is_managed
                       /\ ~RoleIsSuperadmin(last.id.v) )

C20_Witness ==
    /\ config.groups_enabled
    /\ last.svc = "groups" /\ last.op = "read"
    /\ last.id = IdStr("admin") /\ ~groups["admin"].is_managed
    /\ last.who = IdInt(2) /\ members[2] = {}
    /\ last.result = "PermissionDenied"

ProbeBranchQuery(branch) ==
    make_query([i \in DOMAIN branch |-> Gen_query_filter(branch[i], probe.identity)])

\* the needs of a generator list when no record is given
ProbeBranchNeeds(branch) ==
    UNION {Gen_needs(branch[i], Ctx(NoRecord, probe.identity, IdNone)) : i \in DOMAIN branch}

\* C22 as claimed: IfGroupNotManaged.query_filter returns the else_ filter exactly when
\* the identity satisfies the needs of the then_ generators, and 'is_managed = false AND
\* then-filter' otherwise.
C22_ElseFilterIffThenNeeds ==
    (probe.gen = "query_filter" /\ probe.done /\ probe.generator.gen = "IfGroupNotManaged") =>
        LET g == probe.generator
            qualifies == /\ probe.identity # NoIdentity
                         /\ PermissionAllows(ProbeBranchNeeds(g.then_), {}, probe.identity)
        IN  probe.filter =
                IF qualifies THEN ProbeBranchQuery(g.else_)
                ELSE Q_and(Q_match("is_managed", FALSE), ProbeBranchQuery(g.then_))

\* C22: IfGroupNotManaged.query_filter returns the else_ filter exactly when an identity
\* is given and satisfies the needs of the else_ generators (or holds superuser access),
\* and 'is_managed = false AND then-filter' otherwise.
C22_ElseFilterIffElseNeeds ==
    (probe.gen = "query_filter" /\ probe.done /\ probe.generator.gen = "IfGroupNotManaged") =>
        LET g == probe.generator
            qualifies == /\ probe.identity # NoIdentity
                         /\ PermissionAllows(ProbeBranchNeeds(g.else_), {}, probe.identity)
        IN  probe.filter =
                IF qualifies THEN ProbeBranchQuery(g.else_)
                ELSE Q_and(Q_match("is_managed", FALSE), ProbeBranchQuery(g.then_))

C22_Witness ==
    /\ probe.gen = "query_filter" /\ probe.done
    /\ probe.generator = IfGroupNotManaged(<<AuthenticatedUser>>, <<GroupManager>>)
    /\ probe.identity = get_identity(1) /\ members[1] = {"moderators"}
    /\ probe.filter = Q_and(Q_match_all, Q_not(Q_terms("id", {"admin"})))

\* C23: for every generator instance of the Users, Groups and Domain policies and every
\* identity, query_filter with record=None yields either no constraint or a well-formed
\* boolean filter all of whose operands are filters, IfGroupNotManaged with
\* then_ = [DenyAll()] included.
C23_QueryFilterWellFormed ==
    (probe.gen = "query_filter" /\ probe.done /\ probe.identity # NoIdentity) =>
        (probe.filter = NoFilter \/ IsFilter(probe.filter))

\* C24: an update that carries no is_managed field leaves the is_managed of every group
\* as it was: a group created with is_managed = false is still unmanaged after any
\* sequence of updates that set the description only, by a system process or anybody
\* else.
C24_UpdateKeepsIsManaged ==
    /\ []( /\ "new-role" \in DOMAIN groups => ~groups["new-role"].is_managed
           /\ "it-dep" \in DOMAIN groups => ~groups["it-dep"].is_managed )
    /\ [][\A identity \in Identities, id_ \in GroupLookupNames,
             data \in UpdateDataUnmanagedKept :
             Groups_update(identity, id_, data) =>
                 /\ DOMAIN groups' = DOMAIN groups
                 /\ \A g \in DOMAIN groups : groups'[g].is_managed = groups[g].is_managed]_vars

C24_Witness ==
    /\ probe.gen = "round_trip"
    /\ last.svc = "groups" /\ last.op = "update" /\ last.n = MaxUpdates + 1
    /\ last.who = system_identity.id
    /\ last.id = IdStr("new-role") /\ last.result = "ok"
    /\ "new-role" \in DOMAIN groups
    /\ groups["new-role"].description = "updated"
    /\ ~groups["new-role"].is_managed

\* the alphabetical order of the role names
NameRank(name) ==
    CASE name = "admin" -> 1
      [] name = "it-dep" -> 2
      [] name = "moderators" -> 3
      [] OTHER -> 4

\* sorted(names)
SortedNames(names) ==
    CHOOSE o \in Orders(names) : \A i, j \in DOMAIN o : i < j => NameRank(o[i]) < NameRank(o[j])

\* C25: a user read result and every hit of a user list carry roles and profile.roles
\* exactly when the requesting identity is allowed the manage_groups action, and for
\* such an identity both hold the user's role names in sorted order joined by ", ",
\* the empty string for a user without roles.
C25_RolesSortedForManagers ==
    (probe.gen \in {"UserItem", "UserList"} /\ probe.done) =>
        LET allowed == can_manage_groups(probe.identity)
            expected == Join(SortedNames(members[probe.user]))
        IN  /\ "roles" \in DOMAIN probe.data <=> allowed
            /\ "roles" \in DOMAIN probe.data["profile"] <=> allowed
            /\ allowed =>
                  /\ probe.data["roles"] = expected
                  /\ probe.data["profile"]["roles"] = expected

\* C26: group search and group read agree: every group a search returns to an identity
\* is a group the same identity is allowed to read.
C26_SearchHitsAreReadable ==
    \A identity \in Identities :
        ( /\ last.svc = "groups" /\ last.op = "search" /\ last.result = "ok"
          /\ last.who = identity.id )
        => \A g \in last.hits : GroupsAllows(identity, "read", GetGroup(g))

\* C27: a block, restore, approve, deactivate or activate called on a user who is a
\* superadmin by an identity that holds the moderation action but not superuser access
\* ends in PermissionDenied.
C27_ModeratorNeverManagesSuperadmin ==
    [][\A c \in Calls, op \in ModerationOps, identity \in Identities, id_ \in UserIds :
         ( /\ Enter(c, op, identity, id_)
           /\ IsModerator(identity) /\ ~IsSuperadmin(identity)
           /\ IsSuperadmin(get_identity(id_)) )
         => calls'[c].result = "PermissionDenied"]_vars

\* the users in a role that was granted superuser access, as the memberships m stand
SuperadminUsers(m) == {u \in DOMAIN m : \E g \in m[u] : RoleIsSuperadmin(g)}

\* C28: an add_group or remove_group call made by an identity that is neither a
\* superadmin nor a system process leaves the set of superadmin users as it was: it
\* changes nobody's membership of a role granted superuser access, and no membership at
\* all of a user who is a superadmin.
C28_SuperadminSetKeptByOthers ==
    [][\A identity \in Identities :
         ( /\ last' # last
           /\ last'.svc = "users" /\ last'.op \in {"add_group", "remove_group"}
           /\ last'.who = identity.id
           /\ ~IsSuperadmin(identity) /\ ~IsSystem(identity) )
         => /\ SuperadminUsers(members') = SuperadminUsers(members)
            /\ \A u \in DOMAIN members :
                  {g \in members'[u] : RoleIsSuperadmin(g)}
                      = {g \in members[u] : RoleIsSuperadmin(g)}
            /\ \A u \in SuperadminUsers(members) : members'[u] = members[u]]_vars

C28_Witness ==
    /\ last.svc = "users" /\ last.op = "remove_group"
    /\ last.who = IdInt(1) /\ members[1] = {"moderators"}
    /\ last.id = IdInt(2) /\ members[2] = {"admin"}
    /\ last.result = "PermissionDenied"

C30_PermissionCheckedFirst ==
    /\ [](\A c \in Calls :
             calls[c].result = "PermissionDenied" =>
                 /\ ~calls[c].acquired /\ ~calls[c].committed
                 /\ calls[c].uow = <<>> /\ calls[c].enqueued = 0
                 /\ \A u \in UserIds : c \notin mutex[u])
    /\ [][\A c \in Calls, op \in ModerationOps, identity \in Identities, id_ \in UserIds :
             ( /\ Enter(c, op, identity, id_)
               /\ ~Users_check_permission(identity, "manage", GetUser(id_)) )
             => /\ calls'[c].pc = "done"
                /\ calls'[c].result = "PermissionDenied"
                /\ UNCHANGED <<users, mutex, tasks>>]_vars

C30_Witness ==
    \E c1, c2 \in Calls :
        /\ calls[c1].op = "block" /\ calls[c1].pc = "done" /\ calls[c1].result = "ok"
        /\ calls[c1].target \in UserIds
        /\ mutex[calls[c1].target] = {c1}
        /\ users[calls[c1].target].blocked
        /\ calls[c2].op = "block" /\ calls[c2].target = calls[c1].target
        /\ calls[c2].pc = "done" /\ calls[c2].result = "PermissionDenied"

====
